---------------------------- MODULE Spec2Model ----------------------------
(***************************************************************************)
(* A model of ext/oj/parsex.c, the streaming JSON-superset parser of oj.   *)
(*                                                                         *)
(* The state is the ParseInfo `pi` (reader, value stack, error slot, the   *)
(* calls made on the builder callbacks) and `pc`, the position of          *)
(* oj_pi_parsex.  One action is one iteration of the dispatcher loop of    *)
(* oj_parse2x (the whole handler it routes to), one is the end check of    *)
(* oj_pi_parsex.  The input is revealed to the reader as it reads: each    *)
(* iteration is given exactly the characters it consumes.                  *)
(*                                                                         *)
(* Characters are one-character strings (NUL and BS are named); Ord gives *)
(* their ASCII code where the code computes with it.  64-bit integers are  *)
(* four 16-bit limbs.                                                      *)
(***************************************************************************)
EXTENDS Integers, Sequences, FiniteSets, TLC

VARIABLES pi, pc

vars == <<pi, pc>>

(***************************************************************************)
(* Bounds of the model.                                                    *)
(***************************************************************************)
\* dispatcher iterations that may add input (a further one may read EOF)
MaxTokens == 5
\* top-level values after which the input ends
MaxRoots == 2
\* the same as MaxTokens, for the inputs of SpecLex
MaxLexTokens == 2
\* digits of the longest integer literal of SpecNum
MaxDigits == 21

(***************************************************************************)
(* Characters.                                                             *)
(***************************************************************************)
NUL == "NUL"          \* '\0', what reader_get returns at end of input
SP  == " "
NL  == "\n"
QUOTE == "\""
BSLASH == "\\"

Ord ==
  [c \in {NUL} |-> 0] @@ [c \in {NL} |-> 10] @@ [c \in {"\f"} |-> 12] @@
  [c \in {"\r"} |-> 13] @@ [c \in {"\t"} |-> 9] @@ ("BS" :> 8) @@
  (" " :> 32) @@ ("\"" :> 34) @@ ("*" :> 42) @@ ("+" :> 43) @@ ("," :> 44) @@
  ("-" :> 45) @@ ("." :> 46) @@ ("/" :> 47) @@
  ("0" :> 48) @@ ("1" :> 49) @@ ("2" :> 50) @@ ("3" :> 51) @@ ("4" :> 52) @@
  ("5" :> 53) @@ ("6" :> 54) @@ ("7" :> 55) @@ ("8" :> 56) @@ ("9" :> 57) @@
  (":" :> 58) @@
  ("A" :> 65) @@ ("B" :> 66) @@ ("C" :> 67) @@ ("D" :> 68) @@ ("E" :> 69) @@
  ("F" :> 70) @@ ("G" :> 71) @@ ("I" :> 73) @@ ("N" :> 78) @@
  ("[" :> 91) @@ ("\\" :> 92) @@ ("]" :> 93) @@
  ("a" :> 97) @@ ("b" :> 98) @@ ("c" :> 99) @@ ("d" :> 100) @@ ("e" :> 101) @@
  ("f" :> 102) @@ ("g" :> 103) @@ ("i" :> 105) @@ ("l" :> 108) @@
  ("n" :> 110) @@ ("r" :> 114) @@ ("s" :> 115) @@ ("t" :> 116) @@
  ("u" :> 117) @@ ("x" :> 120) @@ ("y" :> 121) @@ ("{" :> 123) @@ ("}" :> 125)

\* '0' <= c && c <= '9'
IsDigit(c) == Ord["0"] <= Ord[c] /\ Ord[c] <= Ord["9"]

(***************************************************************************)
(* Reader (reader.h is not part of the sources: modelled from the reader   *)
(* contract).  buf is the input revealed so far, tail the number of        *)
(* characters consumed, str/pro the protect mark (an offset, NoMark when   *)
(* clear).  closed: the input ends at the end of buf.  eof: end of input   *)
(* has been returned.  over: a read went past the revealed input (such a   *)
(* step is given more input instead, see oj_parse2x_step).                 *)
(***************************************************************************)
NoMark == -1

oj_reader_init ==
  [buf |-> <<>>, tail |-> 0, str |-> NoMark, pro |-> NoMark,
   closed |-> FALSE, eof |-> FALSE, over |-> FALSE]

\* get(): the next character, advancing; NUL at end of input, not advancing
reader_get(rd) ==
  IF rd.tail < Len(rd.buf)
    THEN [c |-> rd.buf[rd.tail + 1], rd |-> [rd EXCEPT !.tail = @ + 1]]
    ELSE IF rd.closed
      THEN [c |-> NUL, rd |-> [rd EXCEPT !.eof = TRUE]]
      ELSE [c |-> NUL, rd |-> [rd EXCEPT !.over = TRUE]]

\* expect(literal): consumes the literal, or fails at the first difference
RECURSIVE reader_expect(_, _)
reader_expect(rd, s) ==
  IF s = <<>> THEN [ok |-> TRUE, rd |-> rd]
  ELSE LET g == reader_get(rd) IN
       IF g.c # Head(s) THEN [ok |-> FALSE, rd |-> g.rd]
       ELSE reader_expect(g.rd, Tail(s))

\* next_non_white(): skips ASCII whitespace, returns the first other character
RECURSIVE reader_next_non_white(_)
reader_next_non_white(rd) ==
  LET g == reader_get(rd) IN
  IF g.c \in {" ", "\t", "\f", "\n", "\r"}
    THEN reader_next_non_white(g.rd)
    ELSE g

\* protect(): the current position starts a zero-copy span
reader_protect(rd) == [rd EXCEPT !.pro = rd.tail, !.str = rd.tail]

\* reset(): clears the mark
reader_reset(rd) == [rd EXCEPT !.pro = NoMark, !.str = NoMark]

\* a key is a pointer into the input (an offset) or a heap copy
reader_ptr_in_pro(rd, key) ==
  /\ key.where = "input"
  /\ rd.pro # NoMark
  /\ rd.pro <= key.off
  /\ key.off < Len(rd.buf)

\* the len bytes at a pointer into the input
Span(rd, off, len) ==
  [k \in 1..len |-> IF off + k <= Len(rd.buf) THEN Ord[rd.buf[off + k]] ELSE 0]

(***************************************************************************)
(* Value stack (val_stack.h is not part of the sources) and error slot.    *)
(***************************************************************************)
NoKey == [where |-> "none"]      \* parent->key = 0
NoVal == [next |-> "NULL"]       \* what stack_peek and stack_pop give on an empty stack

stack_peek(p) == IF p.stack = <<>> THEN NoVal ELSE p.stack[Len(p.stack)]
stack_empty(p) == p.stack = <<>>
stack_push(p, v, next) ==
  [p EXCEPT !.stack = Append(@, [val |-> v, next |-> next, key |-> NoKey,
                                 klen |-> 0])]
stack_pop(p) == [p EXCEPT !.stack = SubSeq(@, 1, Len(@) - 1)]
SetNext(p, next) == [p EXCEPT !.stack[Len(p.stack)].next = next]

Qnil == "Qnil"
err_init(p) == [p EXCEPT !.err = [clas |-> Qnil]]
err_has(p) == p.err.clas # Qnil

\* pi->err.clas = err_clas, unconditionally; errs is the history of the calls
oj_set_error_atx(p, msg) ==
  [p EXCEPT !.err = [clas |-> "oj_parse_error_class"], !.errs = Append(@, msg)]

\* a call of one of pi's builder callbacks
Call(p, c) == [p EXCEPT !.calls = Append(@, c)]

\* the key of a frame as the builder reads it: klen bytes at parent->key
KeyBytes(p, parent) ==
  IF parent.key.where = "input" THEN Span(p.rd, parent.key.off, parent.klen)
  ELSE IF parent.key.where = "heap" THEN parent.key.bytes
  ELSE <<>>

\* lines 104-107: the key is freed unless it lies in the protected input
FreeKey(p) ==
  LET parent == stack_peek(p) IN
  IF parent.key # NoKey /\ ~reader_ptr_in_pro(p.rd, parent.key)
    THEN [p EXCEPT !.frees = Append(@, parent.key),
                   !.stack[Len(p.stack)].key = NoKey]
    ELSE p

\* add_value taking the value whatever the frame expects
add_value_any(p, rval) ==
  LET parent == stack_peek(p) IN
  IF parent = NoVal
    THEN Call(p, [op |-> "add_value", key |-> <<>>, val |-> rval])
  ELSE IF parent.next \in {"HASH_VALUE", "HASH_COLON", "HASH_COMMA"}
    THEN SetNext(FreeKey(Call(p, [op |-> "hash_set_value",
                                  key |-> KeyBytes(p, parent), val |-> rval])),
                 "HASH_COMMA")
  ELSE SetNext(Call(p, [op |-> "array_append_value", key |-> <<>>, val |-> rval]),
               "ARRAY_COMMA")

add_value(p, rval) ==
  LET parent == stack_peek(p) IN
  IF parent = NoVal
    THEN Call(p, [op |-> "add_value", key |-> <<>>, val |-> rval])
  ELSE IF parent.next \in {"ARRAY_NEW", "ARRAY_ELEMENT"}
    THEN SetNext(Call(p, [op |-> "array_append_value", key |-> <<>>, val |-> rval]),
                 "ARRAY_COMMA")
  ELSE IF parent.next = "HASH_VALUE"
    THEN SetNext(FreeKey(Call(p, [op |-> "hash_set_value",
                                  key |-> KeyBytes(p, parent), val |-> rval])),
                 "HASH_COMMA")
  ELSE oj_set_error_atx(p, "expected " \o parent.next)

\* lines 676-730: the value a NumInfo becomes, by its kind and what it is
\* computed from; the text of a large number is the ni.len bytes at ni.str.
\* The builder's number callbacks make it of the NumInfo they are given
\* (ni.div is the int64 1 as limbs).
oj_num_as_valuex(rd, ni) ==
  IF ni.infinity # 0 THEN [t |-> "infinity", neg |-> ni.neg]
  ELSE IF ni.nan # 0 THEN [t |-> "nan"]
  ELSE IF ni.div = <<1, 0, 0, 0>> /\ ni.exp = 0 THEN
    IF ni.big # 0 THEN [t |-> "bignum", text |-> Span(rd, ni.str, ni.len)]
    ELSE [t |-> "fixnum", neg |-> ni.neg, i |-> ni.i]
  ELSE
    IF ni.big # 0
      THEN [t |-> "bigdecimal", text |-> Span(rd, ni.str, ni.len),
            to_f |-> ni.no_big]
    ELSE [t |-> "float", neg |-> ni.neg, i |-> ni.i, num |-> ni.num,
          div |-> ni.div, exp |-> ni.exp]

\* a call of one of the builder's number callbacks
NumCall(p, op, key, ni) ==
  Call(p, [op |-> op, key |-> key, val |-> ni,
           rnum |-> oj_num_as_valuex(p.rd, ni)])

\* add_num_value appending to the array whatever its frame expects
add_num_value_any(p, ni) ==
  LET parent == stack_peek(p) IN
  IF parent = NoVal
    THEN NumCall(p, "add_num", <<>>, ni)
  ELSE SetNext(NumCall(p, "array_append_num", <<>>, ni),
               "ARRAY_COMMA")

add_num_value(p, ni) ==
  LET parent == stack_peek(p) IN
  IF parent = NoVal
    THEN NumCall(p, "add_num", <<>>, ni)
  ELSE IF parent.next \in {"ARRAY_NEW", "ARRAY_ELEMENT"}
    THEN SetNext(NumCall(p, "array_append_num", <<>>, ni),
                 "ARRAY_COMMA")
  ELSE IF parent.next = "HASH_VALUE"
    THEN SetNext(FreeKey(NumCall(p, "hash_set_num", KeyBytes(p, parent), ni)),
                 "HASH_COMMA")
  ELSE oj_set_error_atx(p, "expected " \o parent.next)

Lit(name) == [t |-> name]

\* e what reader_expect gave
read_literal(p, e, rval, msg) ==
  IF e.ok THEN add_value([p EXCEPT !.rd = e.rd], rval)
  ELSE oj_set_error_atx([p EXCEPT !.rd = e.rd], msg)

read_true(p) ==
  read_literal(p, reader_expect(p.rd, <<"r", "u", "e">>), Lit("Qtrue"), "expected true")

read_false(p) ==
  read_literal(p, reader_expect(p.rd, <<"a", "l", "s", "e">>), Lit("Qfalse"),
               "expected false")

(***************************************************************************)
(* Strings.  Decoded bytes are numbers 0..255.                             *)
(***************************************************************************)
RECURSIVE BitAnd(_, _)
BitAnd(a, b) ==
  IF a = 0 \/ b = 0 THEN 0
  ELSE 2 * BitAnd(a \div 2, b \div 2) + (IF a % 2 = 1 /\ b % 2 = 1 THEN 1 ELSE 0)

RECURSIVE BitOr(_, _)
BitOr(a, b) ==
  IF a = 0 THEN b ELSE IF b = 0 THEN a
  ELSE 2 * BitOr(a \div 2, b \div 2) + (IF a % 2 = 1 \/ b % 2 = 1 THEN 1 ELSE 0)

\* a >> n and a << n on values that stay within 31 bits
Shr(a, n) == a \div (2 ^ n)
Shl(a, n) == a * (2 ^ n)

\* buf_append(buf, (char)x)
buf_append(buf, x) == Append(buf, x % 256)

\* the loop of read_hex from digit i on; b is 0 when a character is no hex digit
RECURSIVE read_hex_from(_, _, _)
read_hex_from(p, b, i) ==
  IF i >= 4 THEN [b |-> b, p |-> p]
  ELSE
    LET g == reader_get(p.rd)
        q == [p EXCEPT !.rd = g.rd]
        c == Ord[g.c]
        b4 == Shl(b, 4) IN
    IF Ord["0"] <= c /\ c <= Ord["9"] THEN read_hex_from(q, b4 + (c - Ord["0"]), i + 1)
    ELSE IF Ord["A"] <= c /\ c <= Ord["F"]
      THEN read_hex_from(q, b4 + (c - Ord["A"] + 10), i + 1)
    ELSE IF Ord["a"] <= c /\ c <= Ord["f"]
      THEN read_hex_from(q, b4 + (c - Ord["a"] + 10), i + 1)
    ELSE [b |-> 0, p |-> oj_set_error_atx(q, "invalid hex character")]

read_hex(p) == read_hex_from(p, 0, 0)

\* 0x7F, 0x7FF, 0xFFFF, 0x1FFFFF, 0x3FFFFFF, 0x7FFFFFFF
unicode_to_chars(p, buf, code) ==
  IF 127 >= code THEN [p |-> p, buf |-> buf_append(buf, code)]
  ELSE IF 2047 >= code THEN
    [p |-> p,
     buf |-> buf_append(buf_append(buf, BitOr(192, Shr(code, 6))),
                        BitOr(128, BitAnd(63, code)))]
  ELSE IF 65535 >= code THEN
    [p |-> p,
     buf |-> buf_append(buf_append(buf_append(buf,
               BitOr(224, Shr(code, 12))),
               BitOr(128, BitAnd(Shr(code, 6), 63))),
               BitOr(128, BitAnd(63, code)))]
  ELSE IF 2097151 >= code THEN
    [p |-> p,
     buf |-> buf_append(buf_append(buf_append(buf_append(buf,
               BitOr(240, Shr(code, 18))),
               BitOr(128, BitAnd(Shr(code, 12), 63))),
               BitOr(128, BitAnd(Shr(code, 6), 63))),
               BitOr(128, BitAnd(63, code)))]
  ELSE IF 67108863 >= code THEN
    [p |-> p,
     buf |-> buf_append(buf_append(buf_append(buf_append(buf_append(buf,
               BitOr(248, Shr(code, 24))),
               BitOr(128, BitAnd(Shr(code, 18), 63))),
               BitOr(128, BitAnd(Shr(code, 12), 63))),
               BitOr(128, BitAnd(Shr(code, 6), 63))),
               BitOr(128, BitAnd(63, code)))]
  ELSE IF 2147483647 >= code THEN
    [p |-> p,
     buf |-> buf_append(buf_append(buf_append(buf_append(buf_append(buf_append(buf,
               BitOr(252, Shr(code, 30))),
               BitOr(128, BitAnd(Shr(code, 24), 63))),
               BitOr(128, BitAnd(Shr(code, 18), 63))),
               BitOr(128, BitAnd(Shr(code, 12), 63))),
               BitOr(128, BitAnd(Shr(code, 6), 63))),
               BitOr(128, BitAnd(63, code)))]
  ELSE [p |-> oj_set_error_atx(p, "invalid Unicode character"), buf |-> buf]

\* 0xD800 <= code && code <= 0xDFFF
IsSurrogateUnit(code) == 55296 <= code /\ code <= 57343

\* (c1 << 10 | c2) + 0x10000 with c1 = (code - 0xD800) & 0x3FF and
\* c2 = (c2 - 0xDC00) & 0x3FF; the subtractions are on uint32_t, whose low ten
\* bits are those of the difference modulo 1024
CombineSurrogates(code, c2) ==
  BitOr(Shl(BitAnd((code - 55296) % 1024, 1023), 10),
        BitAnd((c2 - 56320) % 1024, 1023)) + 65536

\* lines 279-283: the bytes of the code point; ret is set when the function
\* returns on the error of unicode_to_chars
append_code(u) == [ret |-> err_has(u.p), p |-> u.p, buf |-> u.buf]

\* lines 272-277: the second code unit h2 of a pair whose first is code
second_unit(h2, buf, code) ==
  IF h2.b = 0 /\ err_has(h2.p) THEN [ret |-> TRUE, p |-> h2.p, buf |-> buf]
  ELSE append_code(unicode_to_chars(h2.p, buf, CombineSurrogates(code, h2.b)))

\* lines 265-271: the two characters c, ch2 after the first code unit
pair_intro(p, c, ch2, buf, code) ==
  IF c # BSLASH \/ ch2 # "u"
    THEN [ret |-> TRUE, p |-> oj_set_error_atx(p, "invalid escaped character"),
          buf |-> buf]
    ELSE second_unit(read_hex(p), buf, code)

\* two reader_get: [c, ch2, rd]
Get2(rd) ==
  LET g1 == reader_get(rd) IN
  [c |-> g1.c, ch2 |-> reader_get(g1.rd).c, rd |-> reader_get(g1.rd).rd]

surrogate_pair(p, g, buf, code) ==
  pair_intro([p EXCEPT !.rd = g.rd], g.c, g.ch2, buf, code)

\* case 'u' of read_escaped_str, h what read_hex gave; ret is set when the
\* function returns here
escaped_u(h, buf) ==
  IF h.b = 0 /\ err_has(h.p) THEN [ret |-> TRUE, p |-> h.p, buf |-> buf]
  ELSE IF IsSurrogateUnit(h.b) THEN surrogate_pair(h.p, Get2(h.p.rd), buf, h.b)
  ELSE append_code(unicode_to_chars(h.p, buf, h.b))

\* the single-character escapes: n r t f b " / \
SimpleEscape ==
  ("n" :> Ord["\n"]) @@ ("r" :> Ord["\r"]) @@ ("t" :> Ord["\t"]) @@
  ("f" :> Ord["\f"]) @@ ("b" :> Ord["BS"]) @@ ("\"" :> Ord["\""]) @@
  ("/" :> Ord["/"]) @@ ("\\" :> Ord["\\"])

\* the while loop of read_escaped_str; ret is set when the function returns in it
RECURSIVE escaped_loop(_, _)

after_u(u) == IF u.ret THEN u ELSE escaped_loop(u.p, u.buf)

\* the switch on the character c after a backslash
escaped_char(p, c, buf) ==
  IF c \in DOMAIN SimpleEscape THEN escaped_loop(p, buf_append(buf, SimpleEscape[c]))
  ELSE IF c = "u" THEN after_u(escaped_u(read_hex(p), buf))
  ELSE [ret |-> TRUE, p |-> oj_set_error_atx(p, "invalid escaped character"),
        buf |-> buf]

escaped_next(p, g, buf) ==
  IF g.c = QUOTE THEN [ret |-> FALSE, p |-> [p EXCEPT !.rd = g.rd], buf |-> buf]
  ELSE IF g.c = NUL
    THEN [ret |-> TRUE,
          p |-> oj_set_error_atx([p EXCEPT !.rd = g.rd], "quoted string not terminated"),
          buf |-> buf]
  ELSE IF g.c = BSLASH
    THEN escaped_char([p EXCEPT !.rd = reader_get(g.rd).rd], reader_get(g.rd).c, buf)
  ELSE escaped_loop([p EXCEPT !.rd = g.rd], buf_append(buf, Ord[g.c]))

escaped_loop(p, buf) == escaped_next(p, reader_get(p.rd), buf)

CStr(bytes) == [t |-> "cstr", bytes |-> bytes]

\* strdup: the bytes up to the first 0
RECURSIVE strdup(_)
strdup(bytes) ==
  IF bytes = <<>> \/ Head(bytes) = 0 THEN <<>>
  ELSE <<Head(bytes)>> \o strdup(Tail(bytes))

\* what read_str and read_escaped_str do with the string: bytes are the len
\* bytes at head, key is the pending key it becomes in a hash (k1, the cache
\* of the key's first character, is read nowhere in parsex.c and left out)
deliver_cstr(p, bytes, key) ==
  LET parent == stack_peek(p) IN
  IF parent = NoVal
    THEN Call(p, [op |-> "add_cstr", key |-> <<>>, val |-> CStr(bytes)])
  ELSE IF parent.next \in {"ARRAY_NEW", "ARRAY_ELEMENT"}
    THEN SetNext(Call(p, [op |-> "array_append_cstr", key |-> <<>>,
                          val |-> CStr(bytes)]),
                 "ARRAY_COMMA")
  ELSE IF parent.next \in {"HASH_NEW", "HASH_KEY"}
    THEN [p EXCEPT !.stack[Len(p.stack)] =
            [@ EXCEPT !.key = key, !.klen = Len(bytes), !.next = "HASH_COLON"]]
  ELSE IF parent.next = "HASH_VALUE"
    THEN SetNext(FreeKey(Call(p, [op |-> "hash_set_cstr",
                                  key |-> KeyBytes(p, parent),
                                  val |-> CStr(bytes)])),
                 "HASH_COMMA")
  ELSE oj_set_error_atx(p, "expected " \o parent.next \o ", not a string")

\* lines 294-328, l what the loop gave
escaped_end(l) ==
  IF l.ret THEN l.p
  ELSE deliver_cstr(l.p, l.buf, [where |-> "heap", bytes |-> strdup(l.buf)])

\* entered after the backslash has been read
read_escaped_str(p) ==
  escaped_end(escaped_loop(p, IF p.rd.str < p.rd.tail
                                THEN Span(p.rd, p.rd.str, p.rd.tail - p.rd.str)
                                ELSE <<>>))

\* the while loop of read_str: how it ends, and the reader there
RECURSIVE str_loop(_)
str_loop(rd) ==
  LET g == reader_get(rd) IN
  IF g.c = QUOTE THEN [end |-> "quote", rd |-> g.rd]
  ELSE IF g.c = NUL THEN [end |-> "nul", rd |-> g.rd]
  ELSE IF g.c = BSLASH THEN [end |-> "escape", rd |-> g.rd]
  ELSE str_loop(g.rd)

Reset(p) == [p EXCEPT !.rd = reader_reset(p.rd)]

\* lines 338-380, the reader at the end of the loop in p
str_end(p, end) ==
  IF end = "nul" THEN oj_set_error_atx(p, "quoted string not terminated")
  ELSE IF end = "escape" THEN Reset(read_escaped_str(p))
  ELSE Reset(deliver_cstr(p, Span(p.rd, p.rd.str, p.rd.tail - p.rd.str),
                          [where |-> "input", off |-> p.rd.str]))

str_scan(p, l) == str_end([p EXCEPT !.rd = l.rd], l.end)

read_str(p) == str_scan(p, str_loop(reader_protect(p.rd)))

(***************************************************************************)
(* Numbers.  int64_t values are four 16-bit limbs, least significant       *)
(* first, in two's complement; arithmetic wraps at 64 bits (overflow of a  *)
(* signed multiplication is undefined in C; a build without trapping       *)
(* arithmetic produces the wrapped value).                                 *)
(***************************************************************************)
DEC_MAX == 14
EXP_MAX == 1023

I64(n) == <<n % 65536, (n \div 65536) % 65536, 0, 0>>   \* of 0 <= n < 2^31
LONG_MAX == <<65535, 65535, 65535, 32767>>

\* x * m + a on limbs from limb k on, the carry out of the top limb dropped
RECURSIVE MulAddFrom(_, _, _, _)
MulAddFrom(x, m, a, k) ==
  IF k > Len(x) THEN <<>>
  ELSE LET t == x[k] * m + a IN
       <<t % 65536>> \o MulAddFrom(x, m, t \div 65536, k + 1)

MulAdd(x, m, a) == MulAddFrom(x, m, a, 1)

IsNeg64(x) == x[4] >= 32768

\* unsigned a <= b, comparing from limb k down
RECURSIVE ULeFrom(_, _, _)
ULeFrom(a, b, k) ==
  IF k = 0 THEN TRUE
  ELSE IF a[k] # b[k] THEN a[k] < b[k]
  ELSE ULeFrom(a, b, k - 1)

\* signed a <= b
I64Le(a, b) ==
  IF IsNeg64(a) # IsNeg64(b) THEN IsNeg64(a) ELSE ULeFrom(a, b, 4)

NumInfoInit(p) ==
  [str |-> p.rd.str, i |-> I64(0), num |-> I64(0), div |-> I64(1), len |-> 0,
   exp |-> 0, dec_cnt |-> 0, big |-> 0, infinity |-> 0, nan |-> 0, neg |-> 0,
   no_big |-> (p.options.bigdec_load = "FloatDec")]

\* lines 425-442: the digits of the integer part; s is [rd, c, ni, zero_cnt]
RECURSIVE int_digits(_)
int_digits(s) ==
  IF ~IsDigit(s.c) THEN s
  ELSE
    LET d == Ord[s.c] - Ord["0"]
        cnt == s.ni.dec_cnt + 1
        zc == IF s.ni.big # 0 THEN s.zero_cnt ELSE IF d = 0 THEN s.zero_cnt + 1 ELSE 0
        i == MulAdd(s.ni.i, 10, d)
        ni == IF s.ni.big # 0
                THEN [s.ni EXCEPT !.dec_cnt = cnt, !.big = @ + 1]
                ELSE [s.ni EXCEPT !.dec_cnt = cnt, !.i = i,
                        !.big = IF I64Le(LONG_MAX, i) \/ DEC_MAX < cnt - zc
                                  THEN 1 ELSE 0]
        g == reader_get(s.rd) IN
    int_digits([rd |-> g.rd, c |-> g.c, ni |-> ni, zero_cnt |-> zc])

\* lines 445-459: the digits of the fraction
RECURSIVE frac_digits(_)
frac_digits(s) ==
  IF ~IsDigit(s.c) THEN s
  ELSE
    LET d == Ord[s.c] - Ord["0"]
        zc == IF d = 0 THEN s.zero_cnt + 1 ELSE 0
        cnt == s.ni.dec_cnt + 1
        div == MulAdd(s.ni.div, 10, 0)
        ni == [s.ni EXCEPT !.dec_cnt = cnt, !.num = MulAdd(@, 10, d), !.div = div,
                 !.big = IF I64Le(LONG_MAX, div) \/ DEC_MAX < cnt - zc THEN 1 ELSE @]
        g == reader_get(s.rd) IN
    frac_digits([rd |-> g.rd, c |-> g.c, ni |-> ni, zero_cnt |-> zc])

\* lines 471-476: the digits of the exponent
RECURSIVE exp_digits(_)
exp_digits(s) ==
  IF ~IsDigit(s.c) THEN s
  ELSE
    LET e == s.ni.exp * 10 + (Ord[s.c] - Ord["0"])
        ni == [s.ni EXCEPT !.exp = e, !.big = IF EXP_MAX <= e THEN 1 ELSE @]
        g == reader_get(s.rd) IN
    exp_digits([rd |-> g.rd, c |-> g.c, ni |-> ni, zero_cnt |-> s.zero_cnt])

\* reader_get into c
NextC(s) == LET g == reader_get(s.rd) IN [s EXCEPT !.rd = g.rd, !.c = g.c]

\* lines 443-460
frac_part(a) == IF a.c = "." THEN frac_digits(NextC(a)) ELSE a

\* lines 477-479
exp_sign(s, eneg) == IF eneg THEN [s EXCEPT !.ni.exp = -@] ELSE s

\* lines 464-479, e0.c the character after the e
exp_tail(e0) ==
  exp_sign(exp_digits(IF e0.c \in {"-", "+"} THEN NextC(e0) ELSE e0), e0.c = "-")

\* lines 461-480
exp_part(b) == IF b.c \in {"e", "E"} THEN exp_tail(NextC(b)) ELSE b

\* lines 481-482
num_span(e) ==
  [e EXCEPT !.ni.dec_cnt = @ - e.zero_cnt, !.ni.len = e.rd.tail - e.rd.str]

\* lines 425-483: a decimal literal whose first character is s.c
read_decimal(s) == num_span(exp_part(frac_part(int_digits(s))))

\* line 484 on: the forced big, then the value goes to the builder
finish_num(p, ni) ==
  add_num_value(p, IF p.options.bigdec_load = "BigDec" THEN [ni EXCEPT !.big = 1]
                   ELSE ni)

finish_decimal(p, s) == finish_num([p EXCEPT !.rd = s.rd], s.ni)

\* lines 409-413
read_infinity(p, e, ni) ==
  IF ~e.ok THEN oj_set_error_atx([p EXCEPT !.rd = e.rd], "not a number or other value")
  ELSE finish_num([p EXCEPT !.rd = e.rd], [ni EXCEPT !.infinity = 1])

\* lines 417-423, g the two characters read
read_nan(p, g, ni) ==
  IF g.c # "a" \/ (g.ch2 # "N" /\ g.ch2 # "n")
    THEN oj_set_error_atx([p EXCEPT !.rd = g.rd], "not a number or other value")
    ELSE finish_num([p EXCEPT !.rd = g.rd], [ni EXCEPT !.nan = 1])

\* lines 408-487, s1 the state after the sign
num_body(p, s1) ==
  IF s1.c = "I"
    THEN read_infinity(p, reader_expect(s1.rd, <<"n", "f", "i", "n", "i", "t", "y">>),
                       s1.ni)
  ELSE IF s1.c \in {"N", "n"} THEN read_nan(p, Get2(s1.rd), s1.ni)
  ELSE finish_decimal(p, read_decimal(s1))

\* lines 402-407
num_sign(s0) ==
  IF s0.c = "-" THEN [NextC(s0) EXCEPT !.ni.neg = 1]
  ELSE IF s0.c = "+" THEN NextC(s0) ELSE s0

\* lines 388-400, p after reader_protect
num_init(p, c) == [rd |-> p.rd, c |-> c, ni |-> NumInfoInit(p), zero_cnt |-> 0]

num_start(p, c) == num_body(p, num_sign(num_init(p, c)))

read_num(p, c) == num_start([p EXCEPT !.rd = reader_protect(p.rd)], c)

(***************************************************************************)
(* Containers and separators.  A container value is the index of the       *)
(* start call that made it.                                                *)
(***************************************************************************)
Container(p) == [t |-> "container", id |-> Len(p.calls) + 1]

array_start(p) ==
  stack_push(Call(p, [op |-> "start_array", key |-> <<>>, val |-> Container(p)]),
             Container(p), "ARRAY_NEW")

\* an array close that ends the array and hands it to nobody
array_end_drop(p) ==
  LET array == stack_peek(p)
      q == IF array = NoVal THEN p ELSE stack_pop(p) IN
  IF array = NoVal THEN oj_set_error_atx(q, "unexpected array close")
  ELSE IF array.next # "ARRAY_COMMA" /\ array.next # "ARRAY_NEW"
    THEN oj_set_error_atx(q, "expected " \o array.next \o ", not an array close")
  ELSE Call(q, [op |-> "end_array", key |-> <<>>, val |-> array.val])

\* the frame is popped before it is looked at
array_end(p) ==
  LET array == stack_peek(p)
      q == IF array = NoVal THEN p ELSE stack_pop(p) IN
  IF array = NoVal THEN oj_set_error_atx(q, "unexpected array close")
  ELSE IF array.next # "ARRAY_COMMA" /\ array.next # "ARRAY_NEW"
    THEN oj_set_error_atx(q, "expected " \o array.next \o ", not an array close")
  ELSE add_value(Call(q, [op |-> "end_array", key |-> <<>>, val |-> array.val]),
                 array.val)

hash_start(p) ==
  stack_push(Call(p, [op |-> "start_hash", key |-> <<>>, val |-> Container(p)]),
             Container(p), "HASH_NEW")

\* the frame is left on the stack until the close is accepted
hash_end(p) ==
  LET hash == stack_peek(p) IN
  IF hash = NoVal THEN oj_set_error_atx(p, "unexpected hash close")
  ELSE IF hash.next # "HASH_COMMA" /\ hash.next # "HASH_NEW"
    THEN oj_set_error_atx(p, "expected " \o hash.next \o ", not a hash close")
  ELSE add_value(stack_pop(Call(p, [op |-> "end_hash", key |-> <<>>,
                                    val |-> hash.val])),
                 hash.val)

comma(p) ==
  LET parent == stack_peek(p) IN
  IF parent = NoVal THEN oj_set_error_atx(p, "unexpected comma")
  ELSE IF parent.next = "ARRAY_COMMA" THEN SetNext(p, "ARRAY_ELEMENT")
  ELSE IF parent.next = "HASH_COMMA" THEN SetNext(p, "HASH_KEY")
  ELSE oj_set_error_atx(p, "unexpected comma")

\* a colon taken whatever the top frame expects
colon_any(p) ==
  IF stack_empty(p) THEN oj_set_error_atx(p, "unexpected colon")
  ELSE SetNext(p, "HASH_VALUE")

colon(p) ==
  LET parent == stack_peek(p) IN
  IF parent # NoVal /\ parent.next = "HASH_COLON" THEN SetNext(p, "HASH_VALUE")
  ELSE oj_set_error_atx(p, "unexpected colon")

(***************************************************************************)
(* Comments.                                                               *)
(***************************************************************************)
\* lines 58-65: ends at * followed by /, or at NUL
RECURSIVE block_comment(_)
block_comment(rd) ==
  LET g == reader_get(rd) IN
  IF g.c = NUL THEN [ret |-> FALSE, c |-> g.c, rd |-> g.rd]
  ELSE IF g.c = "*" THEN
    LET g2 == reader_get(g.rd) IN
    IF g2.c = "/" THEN [ret |-> TRUE, c |-> g2.c, rd |-> g2.rd]
    ELSE block_comment(g2.rd)
  ELSE block_comment(g.rd)

\* lines 67-77: ends at a line end, or at NUL
RECURSIVE line_comment(_)
line_comment(rd) ==
  LET g == reader_get(rd) IN
  IF g.c = NUL THEN [ret |-> FALSE, c |-> g.c, rd |-> g.rd]
  ELSE IF g.c \in {"\n", "\r", "\f"} THEN [ret |-> TRUE, c |-> g.c, rd |-> g.rd]
  ELSE line_comment(g.rd)

\* lines 81-84, reached unless a loop returned
comment_tail(p, c) ==
  IF c = NUL THEN oj_set_error_atx(p, "comment not terminated") ELSE p

\* l what a comment loop gave
comment_end(p, l) ==
  IF l.ret THEN [p EXCEPT !.rd = l.rd] ELSE comment_tail([p EXCEPT !.rd = l.rd], l.c)

comment_kind(p, g) ==
  IF g.c = "*" THEN comment_end(p, block_comment(g.rd))
  ELSE IF g.c = "/" THEN comment_end(p, line_comment(g.rd))
  ELSE comment_tail(oj_set_error_atx([p EXCEPT !.rd = g.rd], "invalid comment format"),
                    g.c)

skip_comment(p) == comment_kind(p, reader_get(p.rd))

(***************************************************************************)
(* The dispatcher.                                                         *)
(***************************************************************************)
\* lines 615-620, e what reader_expect gave
read_null(p, e) ==
  IF e.ok THEN [ret |-> FALSE, p |-> add_value([p EXCEPT !.rd = e.rd], Lit("Qnil"))]
  ELSE [ret |-> TRUE, p |-> oj_set_error_atx([p EXCEPT !.rd = e.rd], "expected null")]

\* lines 624-641, p after the reader_get that gave c
read_an(p, c) ==
  IF c # "N" /\ c # "n" THEN [ret |-> TRUE, p |-> oj_set_error_atx(p, "expected NaN")]
  ELSE [ret |-> FALSE, p |-> add_num_value(p, [NumInfoInit(p) EXCEPT !.nan = 1])]

\* lines 613-645, p after the reader_get that gave c
n_kind(p, c) ==
  IF c = "u" THEN read_null(p, reader_expect(p.rd, <<"l", "l">>))
  ELSE IF c = "a"
    THEN read_an([p EXCEPT !.rd = reader_get(p.rd).rd], reader_get(p.rd).c)
  ELSE [ret |-> TRUE, p |-> oj_set_error_atx(p, "invalid token")]

\* case 'n' of oj_parse2x: null or NaN; ret is set when oj_parse2x returns here
read_n(p) == n_kind([p EXCEPT !.rd = reader_get(p.rd).rd], reader_get(p.rd).c)

\* lines 659-672: the block is called with the top-level value
yield(p) ==
  IF p.proc # "Qundef" /\ stack_empty(p) THEN [p EXCEPT !.yields = @ + 1] ELSE p

\* the switch of oj_parse2x on c, p after the reader_next_non_white that gave
\* it; ret is set when oj_parse2x returns in it
dispatch(p, c) ==
  CASE c = "{" -> [ret |-> FALSE, p |-> hash_start(p)]
    [] c = "}" -> [ret |-> FALSE, p |-> hash_end(p)]
    [] c = ":" -> [ret |-> FALSE, p |-> colon(p)]
    [] c = "[" -> [ret |-> FALSE, p |-> array_start(p)]
    [] c = "]" -> [ret |-> FALSE, p |-> array_end(p)]
    [] c = "," -> [ret |-> FALSE, p |-> comma(p)]
    [] c = QUOTE -> [ret |-> FALSE, p |-> read_str(p)]
    [] c \in {"+", "-", "I", "N"} \/ IsDigit(c) -> [ret |-> FALSE, p |-> read_num(p, c)]
    [] c = "t" -> [ret |-> FALSE, p |-> read_true(p)]
    [] c = "f" -> [ret |-> FALSE, p |-> read_false(p)]
    [] c = "n" -> read_n(p)
    [] c = "/" -> [ret |-> FALSE, p |-> skip_comment(p)]
    [] c = NUL -> [ret |-> TRUE, p |-> p]
    [] OTHER -> [ret |-> TRUE, p |-> oj_set_error_atx(p, "unexpected character")]

\* lines 656-672, h what the switch gave
after_switch(h) ==
  IF h.ret THEN h
  ELSE IF err_has(h.p) THEN [ret |-> TRUE, p |-> h.p]
  ELSE [ret |-> FALSE, p |-> yield(h.p)]

route(p, g) == after_switch(dispatch([p EXCEPT !.rd = g.rd, !.c = g.c], g.c))

\* one iteration of the loop of oj_parse2x; ret is set when oj_parse2x returns
oj_parse2x_step(p) == route(p, reader_next_non_white(p.rd))

\* oj_pi_parsex without its look at the stack
end_check_none(p, v) == p

\* lines 795-817 and 829-832 of oj_pi_parsex, after oj_parse2x has returned
end_check(p, v) ==
  IF ~err_has(p) /\ v # NoVal
    THEN IF v.next \in {"ARRAY_NEW", "ARRAY_ELEMENT", "ARRAY_COMMA"}
           THEN oj_set_error_atx(p, "Array not terminated")
         ELSE IF v.next \in {"HASH_NEW", "HASH_KEY", "HASH_COLON",
                             "HASH_VALUE", "HASH_COMMA"}
           THEN oj_set_error_atx(p, "Hash/Object not terminated")
         ELSE oj_set_error_atx(p, "not terminated")
    ELSE p

\* lines 829-832: the error is raised, or the result returned
outcome(q) == [q EXCEPT !.outcome = IF err_has(q) THEN "raised" ELSE "returned"]

oj_pi_parsex(p) == outcome(end_check(p, stack_peek(p)))

(***************************************************************************)
(* The state machine.                                                      *)
(***************************************************************************)
\* the state when oj_pi_parsex enters oj_parse2x: reader and stack set up,
\* err_init done
InitPi(bigdec_load, proc) ==
  [rd |-> oj_reader_init, stack |-> <<>>, err |-> [clas |-> Qnil], errs |-> <<>>,
   calls |-> <<>>, frees |-> <<>>, options |-> [bigdec_load |-> bigdec_load],
   proc |-> proc, yields |-> 0, c |-> NUL, ntok |-> 0, from |-> 0,
   outcome |-> "none"]

\* the top-level values handed to the builder
IsRootCall(c) == c.op \in {"add_value", "add_num", "add_cstr"}
Roots(p) == Cardinality({k \in 1..Len(p.calls) : IsRootCall(p.calls[k])})

\* input given to one iteration: data, and whether the input ends after it
Chunk(data, close) == [data |-> data, close |-> close]
EofChunk == Chunk(<<>>, TRUE)

Feed(rd, ch) == [rd EXCEPT !.buf = @ \o ch.data, !.closed = ch.close]

\* the iteration read all of what it was given and nothing after it
Exact(rd) == ~rd.over /\ rd.tail = Len(rd.buf) /\ (rd.closed => rd.eof)

\* r is the iteration on exactly the input it was given; ntok counts the
\* iterations and from is where the input of the last one starts
Iterate(r) ==
  /\ Exact(r.p.rd)
  /\ pi' = [r.p EXCEPT !.ntok = @ + 1, !.from = Len(pi.rd.buf)]
  /\ pc' = IF r.ret THEN "parsed" ELSE "parse"

\* an iteration of the dispatcher loop on one of the inputs in chunks, the
\* input ending after max iterations or MaxRoots top-level values
Parse(chunks, max) ==
  /\ pc = "parse"
  /\ \E ch \in chunks \cup {EofChunk} :
       /\ pi.rd.closed => ch = EofChunk
       /\ pi.ntok >= max => ch = EofChunk
       /\ Roots(pi) >= MaxRoots => ch = EofChunk
       /\ Iterate(oj_parse2x_step([pi EXCEPT !.rd = Feed(pi.rd, ch)]))

\* oj_parse2x has returned: the end check of oj_pi_parsex
Finish ==
  /\ pc = "parsed"
  /\ pi' = oj_pi_parsex(pi)
  /\ pc' = "done"

(***************************************************************************)
(* Structure: documents of brackets, separators, small numbers, strings    *)
(* and true.                                                               *)
(***************************************************************************)
Tokens(datas) == {Chunk(d, FALSE) : d \in datas}

StructChunks ==
  Tokens({<<"[">>, <<"]">>, <<"{">>, <<"}">>, <<",">>, <<":">>,
          <<SP, "]">>, <<QUOTE, "a", QUOTE>>, <<QUOTE, BSLASH, "n", QUOTE>>,
          <<"t", "r", "u", "e">>, <<"n", "u", "l", "l">>})
  \cup Tokens({<<d, t>> : d \in {"1", "2"}, t \in {SP, ",", "]", "}"}})
  \cup {Chunk(<<d>>, TRUE) : d \in {"1", "2"}}

Init ==
  /\ pi = InitPi("AutoDec", "Qundef")
  /\ pc = "parse"

Next == Parse(StructChunks, MaxTokens) \/ Finish

Spec == Init /\ [][Next]_vars

(***************************************************************************)
(* Lexis: comments, literals, strings and numbers, whole or cut short by   *)
(* the end of input or by a wrong character, at top level or first in a    *)
(* container.                                                              *)
(***************************************************************************)
Prefixes(S) == UNION {{SubSeq(d, 1, k) : k \in 1..Len(d)} : d \in S}

\* every way one of the texts can reach an iteration: whole or cut, with
\* more input after it or none
Cuts(S) == {Chunk(d, close) : d \in Prefixes(S), close \in BOOLEAN}

LexTexts ==
  {<<"/", "*", "*", "/">>, <<"/", "*", "a", "*", "/">>,
   <<"/", "*", "a", "*", "*", "/">>, <<"/", "*", "*", "a", "*", "/">>,
   <<"/", "/", "a", "\n">>, <<"/", "/", "\r">>, <<"/", "x">>,
   <<QUOTE, "a", QUOTE>>, <<QUOTE, "a", BSLASH, "n", QUOTE>>,
   <<QUOTE, BSLASH, "x">>, <<QUOTE, BSLASH, QUOTE>>,
   <<"t", "r", "u", "e">>, <<"t", "r", "x">>, <<"f", "a", "l", "s", "e">>,
   <<"n", "u", "l", "l">>, <<"n", "a", "n">>, <<"n", "a", "N">>, <<"n", "x">>,
   <<"N", "a", "N">>, <<"I", "n", "f", "i", "n", "i", "t", "y">>,
   <<"-", "I", "n", "f", "i", "n", "i", "t", "y">>,
   <<"1", " ">>, <<"-", "1", ".", "5", "e", "1", " ">>, <<"x">>,
   <<"[">>, <<"{">>, <<"]">>, <<"}">>, <<" ", "\t", "\n", ":">>, <<",">>}

LexChunks == Cuts(LexTexts)

InitLex ==
  /\ pi = InitPi("AutoDec", "Qundef")
  /\ pc = "parse"

NextLex == Parse(LexChunks, MaxLexTokens) \/ Finish

SpecLex == InitLex /\ [][NextLex]_vars

(***************************************************************************)
(* Strings: one string literal, at top level or first in a container, with *)
(* at most one escape or pair of \u escapes in it, alone or after a first  *)
(* character or a first escape.                                            *)
(***************************************************************************)
Seqs4(D1, D2, D3, D4) ==
  {<<d1, d2, d3, d4>> : d1 \in D1, d2 \in D2, d3 \in D3, d4 \in D4}

\* code units: of every UTF-8 length, surrogates, and with characters that
\* are no hex digits
Units1 == Seqs4({"0", "D", "F"}, {"0", "7", "8", "b", "F"},
                {"0", "8", "e"}, {"0", "F", "g"})
Units2 == Seqs4({"0", "D"}, {"0", "c", "F"}, {"0", "F"}, {"0", "G"})
FirstOfPair == {u \in Units1 : u[1] = "D" /\ u[2] \in {"8", "b", "F"}}

EscU == <<BSLASH, "u">>

Escapes ==
  {<<>>, <<BSLASH, "n">>, <<BSLASH, "b">>, <<BSLASH, QUOTE>>, <<BSLASH, BSLASH>>,
   <<BSLASH, "/">>, <<BSLASH, "x">>}
  \cup {EscU \o u : u \in Units1}
  \cup {EscU \o u \o EscU \o v : u \in FirstOfPair, v \in Units2}
  \cup {EscU \o u \o w : u \in FirstOfPair, w \in {<<BSLASH, "n">>, <<"a", "u">>}}

StrTexts ==
  {<<QUOTE>> \o pre \o e \o post \o <<QUOTE>> :
     pre \in {<<>>, <<"a">>, <<BSLASH, "n">>}, e \in Escapes,
     post \in {<<>>, <<"b">>}}

StrCuts == Cuts(StrTexts)

StrChunks(p) ==
  IF p.ntok = 0 THEN Tokens({<<"[">>, <<"{">>}) \cup StrCuts
  ELSE IF p.ntok = 1 /\ p.stack # <<>> THEN StrCuts
  ELSE {}

NextStr == Parse(StrChunks(pi), MaxTokens) \/ Finish

SpecStr == InitLex /\ [][NextStr]_vars

(***************************************************************************)
(* Numbers: one number literal at top level, under each of the three       *)
(* bigdec_load settings, ended by a space or by the end of input.          *)
(***************************************************************************)
RECURSIVE Rep(_, _)
Rep(c, n) == IF n = 0 THEN <<>> ELSE <<c>> \o Rep(c, n - 1)

\* runs of a digit, of zeros and of ones, up to MaxDigits digits in all
RunDigits ==
  {Rep(a, n1) \o Rep("0", n2) \o Rep("1", n3) :
     a \in {"1", "9"}, n1 \in 1..MaxDigits, n2 \in 0..MaxDigits, n3 \in 0..MaxDigits}

\* 2^63 - 1 and its neighbours
NearMax ==
  {<<"9", "2", "2", "3", "3", "7", "2", "0", "3", "6", "8", "5", "4", "7", "7",
     "5", "8", "0">> \o <<d>> : d \in {"6", "7", "8"}}

IntTexts == {d \in RunDigits : Len(d) <= MaxDigits} \cup NearMax

DecTexts ==
  {i \o f \o e : i \in {<<"0">>, <<"1", "2">>},
                 f \in {<<>>, <<".">>, <<".", "5">>, <<".", "0", "5", "0">>},
                 e \in {<<>>, <<"e", "2">>, <<"E", "-", "1">>, <<"e", "+", "0">>,
                        <<"e", "1", "0", "2", "3">>, <<"e", "1", "0", "2", "4">>,
                        <<"e">>}}

NumTexts ==
  {g \o d : g \in {<<>>, <<"-">>}, d \in IntTexts \cup DecTexts}
  \cup {<<"+", "1">>, <<"-">>, <<"N", "a", "N">>, <<"-", "n", "a", "n">>,
        <<"I", "n", "f", "i", "n", "i", "t", "y">>}

NumChunks ==
  {Chunk(d \o <<SP>>, FALSE) : d \in NumTexts} \cup {Chunk(d, TRUE) : d \in NumTexts}

InitNum ==
  /\ \E o \in {"AutoDec", "FloatDec", "BigDec"} : pi = InitPi(o, "Qundef")
  /\ pc = "parse"

NextNum == Parse(IF pi.ntok = 0 THEN NumChunks ELSE {}, MaxTokens) \/ Finish

SpecNum == InitNum /\ [][NextNum]_vars

(***************************************************************************)
(* The grammar of one document, for the claims about valid documents:      *)
(* value := number | string | true | false | null | NaN | [-]Infinity |    *)
(* array | object, with whitespace and comments between tokens.            *)
(***************************************************************************)
At(s, i) == IF i >= 1 /\ i <= Len(s) THEN s[i] ELSE NUL

\* the first index from i on that holds no digit
RECURSIVE RefDigitsEnd(_, _)
RefDigitsEnd(s, i) == IF IsDigit(At(s, i)) THEN RefDigitsEnd(s, i + 1) ELSE i

RefFracEnd(s, i) ==
  IF At(s, i) = "." /\ IsDigit(At(s, i + 1)) THEN RefDigitsEnd(s, i + 1) ELSE i

RefExpDigits(s, i, j) == IF IsDigit(At(s, j)) THEN RefDigitsEnd(s, j) ELSE i

RefExpEnd(s, i) ==
  IF At(s, i) \in {"e", "E"}
    THEN RefExpDigits(s, i, IF At(s, i + 1) \in {"+", "-"} THEN i + 2 ELSE i + 1)
    ELSE i

\* the index after the number that starts at i, 0 when there is none
RefNumEnd(s, i) ==
  IF IsDigit(At(s, i)) THEN RefExpEnd(s, RefFracEnd(s, RefDigitsEnd(s, i))) ELSE 0

IsHex(c) == c \in {"0", "1", "2", "3", "4", "5", "6", "7", "8", "9",
                   "A", "B", "C", "D", "E", "F", "a", "b", "c", "d", "e", "f"}

\* the index after the closing quote of the string whose body starts at i, or 0
RECURSIVE RefStrEnd(_, _)
RefStrEnd(s, i) ==
  IF i > Len(s) THEN 0
  ELSE IF s[i] = QUOTE THEN i + 1
  ELSE IF s[i] = BSLASH THEN
    IF At(s, i + 1) \in DOMAIN SimpleEscape THEN RefStrEnd(s, i + 2)
    ELSE IF At(s, i + 1) = "u" /\ \A k \in 2..5 : IsHex(At(s, i + k))
      THEN RefStrEnd(s, i + 6)
    ELSE 0
  ELSE RefStrEnd(s, i + 1)

\* the index after the comment whose body starts at i (after the two
\* characters that open it), or 0
RECURSIVE RefBlockEnd(_, _)
RefBlockEnd(s, i) ==
  IF i + 1 > Len(s) THEN 0
  ELSE IF s[i] = "*" /\ s[i + 1] = "/" THEN i + 2
  ELSE RefBlockEnd(s, i + 1)

RECURSIVE RefLineEnd(_, _)
RefLineEnd(s, i) ==
  IF i > Len(s) THEN i
  ELSE IF s[i] \in {"\n", "\r", "\f"} THEN i + 1
  ELSE RefLineEnd(s, i + 1)

HasPrefix(s, i, w) == \A k \in 1..Len(w) : At(s, i + k - 1) = w[k]

RefWords == {<<"t", "r", "u", "e">>, <<"f", "a", "l", "s", "e">>,
             <<"n", "u", "l", "l">>, <<"N", "a", "N">>,
             <<"I", "n", "f", "i", "n", "i", "t", "y">>,
             <<"-", "I", "n", "f", "i", "n", "i", "t", "y">>}

\* the index after the scalar that starts at i, or 0
RefScalarEnd(s, i) ==
  IF At(s, i) = QUOTE THEN RefStrEnd(s, i + 1)
  ELSE IF \E w \in RefWords : HasPrefix(s, i, w)
    THEN i + Len(CHOOSE w \in RefWords : HasPrefix(s, i, w))
  ELSE IF At(s, i) = "-" /\ IsDigit(At(s, i + 1)) THEN RefNumEnd(s, i + 1)
  ELSE RefNumEnd(s, i)

Pop(ctx) == SubSeq(ctx, 1, Len(ctx) - 1)
Top(ctx) == IF ctx = <<>> THEN "none" ELSE ctx[Len(ctx)]

\* s from i on completes a document; ctx are the open containers, mode what
\* may come: "value", "first" (a value or ]), "key1" (a key or }), "key",
\* "colon", "after" (a separator, a close or the end)
RECURSIVE Ref(_, _, _, _)

RefAfterScalar(s, j, ctx, mode) ==
  j # 0 /\ Ref(s, j, ctx, IF mode \in {"key1", "key"} THEN "colon" ELSE "after")

RefAfterComment(s, j, ctx, mode) == j # 0 /\ Ref(s, j, ctx, mode)

Ref(s, i, ctx, mode) ==
  LET c == At(s, i) IN
  IF i > Len(s) THEN mode = "after" /\ ctx = <<>>
  ELSE IF c \in {" ", "\t", "\f", "\n", "\r"} THEN Ref(s, i + 1, ctx, mode)
  ELSE IF c = "/" /\ At(s, i + 1) = "*"
    THEN RefAfterComment(s, RefBlockEnd(s, i + 2), ctx, mode)
  ELSE IF c = "/" /\ At(s, i + 1) = "/"
    THEN RefAfterComment(s, RefLineEnd(s, i + 2), ctx, mode)
  ELSE IF mode \in {"value", "first"} THEN
    IF c = "[" THEN Ref(s, i + 1, Append(ctx, "A"), "first")
    ELSE IF c = "{" THEN Ref(s, i + 1, Append(ctx, "O"), "key1")
    ELSE IF c = "]" THEN mode = "first" /\ Ref(s, i + 1, Pop(ctx), "after")
    ELSE RefAfterScalar(s, RefScalarEnd(s, i), ctx, mode)
  ELSE IF mode \in {"key1", "key"} THEN
    IF c = "}" THEN mode = "key1" /\ Ref(s, i + 1, Pop(ctx), "after")
    ELSE c = QUOTE /\ RefAfterScalar(s, RefStrEnd(s, i + 1), ctx, mode)
  ELSE IF mode = "colon" THEN c = ":" /\ Ref(s, i + 1, ctx, "value")
  ELSE \* "after"
    IF c = "," THEN
      /\ ctx # <<>>
      /\ Ref(s, i + 1, ctx, IF Top(ctx) = "A" THEN "value" ELSE "key")
    ELSE IF c = "]" THEN Top(ctx) = "A" /\ Ref(s, i + 1, Pop(ctx), "after")
    ELSE IF c = "}" THEN Top(ctx) = "O" /\ Ref(s, i + 1, Pop(ctx), "after")
    ELSE FALSE

ValidDoc(s) == Ref(s, 1, <<>>, "value")

Finished == pc = "done"
Top1(p) == p.stack[Len(p.stack)]

Members == {<<"1">>, <<"2">>, <<"1", "2">>, <<"2", "1">>, <<"1", "2", "1">>}

RECURSIVE Joined(_, _)
Joined(ms, pre) ==
  IF ms = <<>> THEN <<>>
  ELSE IF Len(ms) = 1 THEN pre \o <<ms[1]>>
  ELSE pre \o <<ms[1], ",">> \o Joined(Tail(ms), pre)

CompactArray(ms) == <<"[">> \o Joined(ms, <<>>) \o <<"]">>
CompactObject(ms) == <<"{">> \o Joined(ms, <<QUOTE, "a", QUOTE, ":">>) \o <<"}">>

\* the calls are start, one call of op per member with its value, end, and
\* the top-level add
MemberCalls(calls, ms, start, op, key, end) ==
  /\ Len(calls) = Len(ms) + 3
  /\ calls[1].op = start
  /\ \A k \in 1..Len(ms) :
       /\ calls[k + 1].op = op
       /\ calls[k + 1].key = key
       /\ calls[k + 1].val.i = I64(Ord[ms[k]] - Ord["0"])
  /\ calls[Len(ms) + 2].op = end
  /\ calls[Len(ms) + 3].op = "add_value"

C2_CompactContainers ==
  \A ms \in Members :
    /\ (Finished /\ pi.rd.buf = CompactArray(ms)) =>
         /\ ~err_has(pi)
         /\ MemberCalls(pi.calls, ms, "start_array", "array_append_num", <<>>,
                         "end_array")
    /\ (Finished /\ pi.rd.buf = CompactObject(ms)) =>
         /\ ~err_has(pi)
         /\ MemberCalls(pi.calls, ms, "start_hash", "hash_set_num", <<Ord["a"]>>,
                         "end_hash")

(***************************************************************************)
(* C3: a closing ] or } that follows a comma with no member in between     *)
(* records an error.                                                       *)
(***************************************************************************)
\* the last character before index i that is no whitespace
RECURSIVE PrevSig(_, _)
PrevSig(s, i) ==
  IF i <= 1 THEN NUL
  ELSE IF s[i - 1] \in {" ", "\t", "\f", "\n", "\r"} THEN PrevSig(s, i - 1)
  ELSE s[i - 1]

\* the last iteration was given a close that follows a comma
CloseAfterComma ==
  /\ pi.ntok > 0 /\ pi.c \in {"]", "}"}
  /\ pi.rd.tail = Len(pi.rd.buf) /\ At(pi.rd.buf, pi.rd.tail) = pi.c
  /\ PrevSig(pi.rd.buf, pi.rd.tail) = ","

C3_TrailingCommaRejected == CloseAfterComma => err_has(pi)

(***************************************************************************)
(* C4: a scalar that arrives while the top frame expects a comma or a      *)
(* colon, or a scalar other than a string while it expects a key, records  *)
(* an error, makes no builder call and leaves the stack as it was.         *)
(***************************************************************************)
ScalarStart == {QUOTE, "+", "-", "I", "N", "t", "f", "n",
                "0", "1", "2", "3", "4", "5", "6", "7", "8", "9"}

\* this step is an iteration that was routed to a scalar's sub-lexer
ScalarStep == pc = "parse" /\ pi'.ntok = pi.ntok + 1 /\ pi'.c \in ScalarStart

NoValueExpected ==
  /\ pi.stack # <<>>
  /\ \/ Top1(pi).next \in {"ARRAY_COMMA", "HASH_COLON", "HASH_COMMA"}
     \/ Top1(pi).next \in {"HASH_NEW", "HASH_KEY"} /\ pi'.c # QUOTE

C4_ScalarRejected ==
  [][(ScalarStep /\ NoValueExpected)
       => (err_has(pi') /\ pi'.calls = pi.calls /\ pi'.stack = pi.stack)]_vars

\* [1 2: the second number arrived where a comma was expected
C4_Witness ==
  /\ pc = "parsed" /\ pi.c = "2" /\ err_has(pi)
  /\ pi.rd.buf = <<"[", "1", " ", "2", " ">>
  /\ Len(pi.calls) = 2 /\ Top1(pi).next = "ARRAY_COMMA"

(***************************************************************************)
(* C5: the integer part of a number literal is marked large when its value *)
(* does not fit a 63-bit signed accumulator or when it has more than 14    *)
(* significant digits (digits minus trailing zeros); when it is not marked *)
(* large the accumulator holds its exact value.                            *)
(***************************************************************************)
\* the digits of s from i on
RECURSIVE DigitRun(_, _)
DigitRun(s, i) ==
  IF i <= Len(s) /\ IsDigit(s[i]) THEN <<s[i]>> \o DigitRun(s, i + 1) ELSE <<>>

\* the value of the digits ds on six limbs, which hold it without loss
RECURSIVE WideValue(_, _)
WideValue(ds, acc) ==
  IF ds = <<>> THEN acc
  ELSE WideValue(Tail(ds), MulAdd(acc, 10, Ord[Head(ds)] - Ord["0"]))

RECURSIVE TrailingZeros(_)
TrailingZeros(ds) ==
  IF ds = <<>> \/ ds[Len(ds)] # "0" THEN 0
  ELSE 1 + TrailingZeros(SubSeq(ds, 1, Len(ds) - 1))

\* more than 2^63 - 1
Beyond63(w) == w[4] >= 32768 \/ w[5] # 0 \/ w[6] # 0

SignLen(s) == IF s # <<>> /\ s[1] \in {"-", "+"} THEN 1 ELSE 0
IntPart(s) == DigitRun(s, SignLen(s) + 1)

\* a literal of digits only has been read and handed to the builder
IntegerRead ==
  /\ Len(pi.calls) = 1 /\ pi.calls[1].op = "add_num" /\ ~err_has(pi)
  /\ pi.options.bigdec_load # "BigDec"
  /\ IntPart(pi.rd.buf) # <<>>
  /\ At(pi.rd.buf, SignLen(pi.rd.buf) + Len(IntPart(pi.rd.buf)) + 1) \in {SP, NUL}

C5_IntegerPart ==
  IntegerRead =>
    LET ds == IntPart(pi.rd.buf)
        w == WideValue(ds, <<0, 0, 0, 0, 0, 0>>)
        ni == pi.calls[1].val IN
    /\ (Beyond63(w) \/ Len(ds) - TrailingZeros(ds) > 14) => ni.big # 0
    /\ ni.big = 0 => w = ni.i \o <<0, 0>>

(***************************************************************************)
(* Strings as a reader of JSON understands them: escapes, \u code units,   *)
(* surrogate pairs and UTF-8, written without the parser's operators.      *)
(***************************************************************************)
RefHexDigit(c) ==
  IF c \in {"0", "1", "2", "3", "4", "5", "6", "7", "8", "9"} THEN Ord[c] - 48
  ELSE IF c \in {"A", "B", "C", "D", "E", "F"} THEN Ord[c] - 55
  ELSE IF c \in {"a", "b", "c", "d", "e", "f"} THEN Ord[c] - 87
  ELSE -1

\* the code unit written at s[i..i+3], or -1
RefUnit(s, i) ==
  IF \A k \in 0..3 : IsHex(At(s, i + k))
    THEN RefHexDigit(s[i]) * 4096 + RefHexDigit(s[i + 1]) * 256
         + RefHexDigit(s[i + 2]) * 16 + RefHexDigit(s[i + 3])
    ELSE -1

\* the code unit of the escape \uXXXX at s[i..i+5], or -1
RefEscUnit(s, i) ==
  IF At(s, i) = BSLASH /\ At(s, i + 1) = "u" THEN RefUnit(s, i + 2) ELSE -1

IsHigh(u) == 55296 <= u /\ u <= 56319
IsLow(u) == 56320 <= u /\ u <= 57343

RefPair(hi, lo) == 65536 + (hi - 55296) * 1024 + (lo - 56320)

RefUtf8(cp) ==
  IF cp < 128 THEN <<cp>>
  ELSE IF cp < 2048 THEN <<192 + (cp \div 64), 128 + (cp % 64)>>
  ELSE IF cp < 65536
    THEN <<224 + (cp \div 4096), 128 + ((cp \div 64) % 64), 128 + (cp % 64)>>
  ELSE <<240 + (cp \div 262144), 128 + ((cp \div 4096) % 64),
         128 + ((cp \div 64) % 64), 128 + (cp % 64)>>

RefEscape ==
  ("n" :> 10) @@ ("r" :> 13) @@ ("t" :> 9) @@ ("f" :> 12) @@ ("b" :> 8) @@
  ("\"" :> 34) @@ ("/" :> 47) @@ ("\\" :> 92)

\* the bytes of the body b from i on; -1 stands for a surrogate that is not
\* half of a pair
RECURSIVE RefDecode(_, _)
RefDecode(b, i) ==
  IF i > Len(b) THEN <<>>
  ELSE IF b[i] # BSLASH THEN <<Ord[b[i]]>> \o RefDecode(b, i + 1)
  ELSE IF At(b, i + 1) \in DOMAIN RefEscape
    THEN <<RefEscape[b[i + 1]]>> \o RefDecode(b, i + 2)
  ELSE IF IsHigh(RefEscUnit(b, i)) /\ IsLow(RefEscUnit(b, i + 6))
    THEN RefUtf8(RefPair(RefEscUnit(b, i), RefEscUnit(b, i + 6))) \o RefDecode(b, i + 12)
  ELSE IF IsHigh(RefEscUnit(b, i)) \/ IsLow(RefEscUnit(b, i))
    THEN <<-1>> \o RefDecode(b, i + 6)
  ELSE RefUtf8(RefEscUnit(b, i)) \o RefDecode(b, i + 6)

\* the input of the last iteration
LastText == SubSeq(pi.rd.buf, pi.from + 1, Len(pi.rd.buf))

\* the last iteration was the string lexer's
StringIter == pi.ntok >= 1 /\ pi.c = QUOTE /\ At(LastText, 1) = QUOTE

\* ... and it took the string
StringRead == StringIter /\ ~err_has(pi)

IsKey == pi.stack # <<>> /\ Top1(pi).next = "HASH_COLON"

\* the bytes it gave the builder, or stored as the pending key
StrBytes ==
  IF IsKey THEN KeyBytes(pi, Top1(pi)) ELSE pi.calls[Len(pi.calls)].val.bytes

\* the characters between the quotes
Body == SubSeq(LastText, 2, Len(LastText) - 1)

(***************************************************************************)
(* C6: the bytes delivered for a string literal are the characters between *)
(* its quotes with every escape replaced by the bytes it stands for:       *)
(* neither the closing quote nor the backslash of the first escape is      *)
(* among them.                                                             *)
(***************************************************************************)
C6_StringBytes ==
  (StringRead /\ RefStrEnd(LastText, 2) = Len(LastText) + 1
     /\ \A k \in 1..Len(RefDecode(Body, 1)) : RefDecode(Body, 1)[k] >= 0)
    => StrBytes = RefDecode(Body, 1)

(***************************************************************************)
(* C7: a \u escape that is a high surrogate (D800-DBFF) is accepted only   *)
(* when \u and a low surrogate (DC00-DFFF) follow it at once; otherwise    *)
(* the string is rejected.                                                 *)
(***************************************************************************)
\* the indices of s from i on where an escape starts
RECURSIVE RefEscStarts(_, _)
RefEscStarts(s, i) ==
  IF i > Len(s) THEN {}
  ELSE IF s[i] # BSLASH THEN RefEscStarts(s, i + 1)
  ELSE {i} \cup RefEscStarts(s, IF At(s, i + 1) = "u" THEN i + 6 ELSE i + 2)

C7_HighSurrogate ==
  (StringIter /\ \E k \in RefEscStarts(LastText, 2) :
                   /\ IsHigh(RefEscUnit(LastText, k))
                   /\ ~IsLow(RefEscUnit(LastText, k + 6)))
    => (err_has(pi) /\ Len(pi.calls) = Len(pi.stack) /\ ~IsKey)

(***************************************************************************)
(* C8: the bytes appended for a \uXXXX escape, or for a pair of a high and *)
(* a low surrogate, are the UTF-8 encoding of the code point, one to four  *)
(* bytes long, and no input reaches the error "invalid Unicode character". *)
(* The strings looked at hold the escape or the pair and nothing else, so  *)
(* the bytes of the string are the bytes appended for it.                  *)
(***************************************************************************)
\* the code point the body b stands for when it is one escape or one pair,
\* or -1
RefCodePoint(b) ==
  IF Len(b) = 6 /\ RefEscUnit(b, 1) >= 0 /\ ~IsHigh(RefEscUnit(b, 1))
       /\ ~IsLow(RefEscUnit(b, 1))
    THEN RefEscUnit(b, 1)
  ELSE IF Len(b) = 12 /\ IsHigh(RefEscUnit(b, 1)) /\ IsLow(RefEscUnit(b, 7))
    THEN RefPair(RefEscUnit(b, 1), RefEscUnit(b, 7))
  ELSE -1

C8_Utf8 ==
  /\ \A k \in 1..Len(pi.errs) : pi.errs[k] # "invalid Unicode character"
  /\ (StringRead /\ ~IsKey /\ RefCodePoint(Body) >= 0)
       => (StrBytes = RefUtf8(RefCodePoint(Body)) /\ Len(StrBytes) \in 1..4)

(***************************************************************************)
(* C9: every parse ends, and one whose input ends inside a string literal  *)
(* or inside a block comment ends with an error recorded.  The inputs      *)
(* looked at are the literal or the comment alone or after the opening     *)
(* character of a container.                                               *)
(***************************************************************************)
\* the input without the character that opens a container
Rest ==
  IF At(pi.rd.buf, 1) \in {"[", "{"} THEN Tail(pi.rd.buf) ELSE pi.rd.buf

\* the string whose body starts at s[i] has no closing quote: a quote after a
\* backslash is part of the body
RECURSIVE RefStrOpen(_, _)
RefStrOpen(s, i) ==
  IF i > Len(s) THEN TRUE
  ELSE IF s[i] = QUOTE THEN FALSE
  ELSE RefStrOpen(s, IF s[i] = BSLASH THEN i + 2 ELSE i + 1)

\* no star followed by a slash from s[i] on
RefBlockOpen(s, i) ==
  \A k \in i..(Len(s) - 1) : ~(s[k] = "*" /\ s[k + 1] = "/")

Unterminated ==
  \/ At(Rest, 1) = QUOTE /\ RefStrOpen(Rest, 2)
  \/ At(Rest, 1) = "/" /\ At(Rest, 2) = "*" /\ RefBlockOpen(Rest, 3)

C9_UnterminatedRejected ==
  (Finished /\ Unterminated) => err_has(pi)

(***************************************************************************)
(* C10: the error slot of a parse is written at most once.                 *)
(***************************************************************************)
C10_ErrorWrittenOnce == Len(pi.errs) <= 1

(***************************************************************************)
(* C11: a line comment that runs to the end of input with no newline,      *)
(* carriage return or form feed in it is ended by the end of input and     *)
(* records no error.  The inputs looked at are the comment alone.          *)
(***************************************************************************)
LineCommentToEnd ==
  /\ At(pi.rd.buf, 1) = "/" /\ At(pi.rd.buf, 2) = "/"
  /\ \A k \in 1..Len(pi.rd.buf) : pi.rd.buf[k] \notin {"\n", "\r", "\f"}

C11_LineCommentAtEnd == (LineCommentToEnd /\ pi.rd.eof) => ~err_has(pi)

(***************************************************************************)
(* C12: a block comment ends at the first star followed by a slash after   *)
(* its opening, also when another star stands right before them, and the   *)
(* reader is then at the character after the slash.  The inputs looked at  *)
(* are those that start with the comment, after its iteration.             *)
(***************************************************************************)
BlockCommentRead ==
  /\ pi.ntok = 1 /\ At(pi.rd.buf, 1) = "/" /\ At(pi.rd.buf, 2) = "*"
  /\ RefBlockEnd(pi.rd.buf, 3) # 0

C12_BlockCommentEnd ==
  BlockCommentRead
    => (~err_has(pi) /\ pi.rd.tail = RefBlockEnd(pi.rd.buf, 3) - 1)

(***************************************************************************)
(* C13: the raw span recorded for a decimal literal (ni.str, ni.len)       *)
(* covers the characters of the literal, from its sign or first digit to   *)
(* its last digit, and no character after it.                              *)
(***************************************************************************)
\* the input without the space that ends the literal
Literal ==
  IF At(pi.rd.buf, Len(pi.rd.buf)) = SP
    THEN SubSeq(pi.rd.buf, 1, Len(pi.rd.buf) - 1) ELSE pi.rd.buf

\* a decimal literal, well formed, has been read and handed to the builder
DecimalRead ==
  /\ Len(pi.calls) = 1 /\ pi.calls[1].op = "add_num" /\ ~err_has(pi)
  /\ RefNumEnd(Literal, SignLen(Literal) + 1) = Len(Literal) + 1

C13_RawSpan ==
  DecimalRead
    => Span(pi.rd, pi.calls[1].val.str, pi.calls[1].val.len)
         = [k \in 1..Len(Literal) |-> Ord[Literal[k]]]

(***************************************************************************)
(* C14: the value made of a number literal has the kind its shape asks     *)
(* for: an integer (fixed-width, or arbitrary-precision when large) for a  *)
(* literal with no fraction and no exponent; a float (or, when large, an   *)
(* arbitrary-precision decimal, narrowed to float under FloatDec) for a    *)
(* literal written with a fraction or an exponent, a zero exponent too;    *)
(* infinity and NaN whatever the other fields hold.                        *)
(***************************************************************************)
HasFracOrExp == \E k \in 1..Len(Literal) : Literal[k] \in {".", "e", "E"}

\* the kind the claim gives a well-formed decimal literal read as ni
RefKind(ni) ==
  IF ~HasFracOrExp THEN (IF ni.big = 0 THEN "fixnum" ELSE "bignum")
  ELSE IF ni.big = 0 THEN "float" ELSE "bigdecimal"

\* Infinity or NaN has been read and handed to the builder
SpecialRead ==
  /\ Len(pi.calls) = 1 /\ pi.calls[1].op = "add_num" /\ ~err_has(pi)
  /\ At(Literal, SignLen(Literal) + 1) \in {"I", "N", "n"}

C14_ValueKind ==
  /\ DecimalRead =>
       /\ pi.calls[1].rnum.t = RefKind(pi.calls[1].val)
       /\ pi.calls[1].rnum.t = "bigdecimal" =>
            pi.calls[1].rnum.to_f = (pi.options.bigdec_load = "FloatDec")
  /\ SpecialRead =>
       pi.calls[1].rnum.t =
         (IF At(Literal, SignLen(Literal) + 1) = "I" THEN "infinity" ELSE "nan")

(***************************************************************************)
(* C15: a colon is accepted only when the top frame expects a colon, and   *)
(* makes it expect a value; a comma is accepted only when the top frame    *)
(* expects a comma, and makes an array frame expect an element and a hash  *)
(* frame expect a key.  Anywhere else, and with an empty stack, the        *)
(* separator records an error and leaves the stack and every frame as they *)
(* were.  No separator makes a builder call.                               *)
(***************************************************************************)
\* this step is an iteration that was routed to colon or comma
SeparatorStep == pc = "parse" /\ pi'.ntok = pi.ntok + 1 /\ pi'.c \in {":", ","}

\* the state the separator c moves a frame expecting next to, NULL if none
RefSeparator(c, next) ==
  IF c = ":" /\ next = "HASH_COLON" THEN "HASH_VALUE"
  ELSE IF c = "," /\ next = "ARRAY_COMMA" THEN "ARRAY_ELEMENT"
  ELSE IF c = "," /\ next = "HASH_COMMA" THEN "HASH_KEY"
  ELSE "NULL"

C15_Separators ==
  [][SeparatorStep =>
       /\ pi'.calls = pi.calls
       /\ IF RefSeparator(pi'.c, stack_peek(pi).next) # "NULL"
            THEN /\ ~err_has(pi')
                 /\ pi'.stack = [pi.stack EXCEPT ![Len(pi.stack)].next =
                                   RefSeparator(pi'.c, stack_peek(pi).next)]
            ELSE err_has(pi') /\ pi'.stack = pi.stack]_vars

\* {"a":, : the colon was accepted after the key, the comma that follows
\* it is rejected and the frame still expects a value
C15_Witness ==
  /\ pc = "parsed" /\ pi.c = "," /\ err_has(pi)
  /\ pi.rd.buf = <<"{", QUOTE, "a", QUOTE, ":", ",">>
  /\ Len(pi.stack) = 1 /\ Top1(pi).next = "HASH_VALUE"
(***************************************************************************)
(* C16: an accepted close (a ] while the top frame is a new array or an    *)
(* array expecting a comma, a } while it is a new hash or a hash expecting *)
(* a comma) removes the top frame and no other, calls the end callback of  *)
(* its kind once, and gives the container to value completion against the  *)
(* new top frame: appended to an array that expects an element, set under  *)
(* the pending key of a hash that expects a value, handed to the top-level *)
(* sink when no frame is left, and an error otherwise.                     *)
(***************************************************************************)
\* this step is an iteration that was routed to a close
CloseStep == pc = "parse" /\ pi'.ntok = pi.ntok + 1 /\ pi'.c \in {"]", "}"}

CloseAccepted(c, next) ==
  \/ c = "]" /\ next \in {"ARRAY_NEW", "ARRAY_COMMA"}
  \/ c = "}" /\ next \in {"HASH_NEW", "HASH_COMMA"}

EndCall(c, val) ==
  [op |-> IF c = "]" THEN "end_array" ELSE "end_hash", key |-> <<>>, val |-> val]

Below(stack) == SubSeq(stack, 1, Len(stack) - 1)

\* value completion of the container val against the frames in below: the
\* call it makes, none when it is rejected
RefFeed(p, below, val) ==
  IF below = <<>> THEN <<[op |-> "add_value", key |-> <<>>, val |-> val]>>
  ELSE IF below[Len(below)].next \in {"ARRAY_NEW", "ARRAY_ELEMENT"}
    THEN <<[op |-> "array_append_value", key |-> <<>>, val |-> val]>>
  ELSE IF below[Len(below)].next = "HASH_VALUE"
    THEN <<[op |-> "hash_set_value", key |-> KeyBytes(p, below[Len(below)]),
            val |-> val]>>
  ELSE <<>>

\* the state value completion leaves the frame expecting next in
RefFed(next) ==
  IF next \in {"ARRAY_NEW", "ARRAY_ELEMENT"} THEN "ARRAY_COMMA"
  ELSE IF next = "HASH_VALUE" THEN "HASH_COMMA"
  ELSE next

C17_RejectedClose ==
  [][(CloseStep /\ ~CloseAccepted(pi'.c, stack_peek(pi).next)) =>
       (err_has(pi') /\ pi'.stack = pi.stack)]_vars

(***************************************************************************)
(* C18: every finished parse has recorded an error, or has an empty stack  *)
(* and has produced at least one top-level value.  (An input that ends     *)
(* with frames on the stack, and an input that is empty or holds only      *)
(* comments, are cases of it.)                                             *)
(***************************************************************************)
C18_TerminalCondition ==
  Finished => (err_has(pi) \/ (stack_empty(pi) /\ Roots(pi) >= 1))
(***************************************************************************)
(* C19: when a key/value pair is committed (a frame expecting a value      *)
(* takes one and expects a comma), the pending key is freed exactly when   *)
(* it is a heap copy: a key copied to the heap is passed to free once, a   *)
(* key that points into the input is not passed to free; and nothing is    *)
(* freed in any other step.                                                *)
(***************************************************************************)
\* this step commits the pair of the frame that is on top after it
CommitStep ==
  /\ pc = "parse" /\ pi'.ntok = pi.ntok + 1
  /\ pi'.stack # <<>> /\ Len(pi'.stack) <= Len(pi.stack)
  /\ pi.stack[Len(pi'.stack)].next = "HASH_VALUE"
  /\ Top1(pi').next = "HASH_COMMA"

PendingKey == pi.stack[Len(pi'.stack)].key

C19_KeyRelease ==
  [][/\ CommitStep =>
          pi'.frees = IF PendingKey.where = "heap"
                        THEN Append(pi.frees, PendingKey) ELSE pi.frees
     /\ pi'.frees # pi.frees => CommitStep]_vars
(***************************************************************************)
(* C20: the number lexer consumes the characters of the literal and no     *)
(* other: when a decimal literal has been read and a character follows it  *)
(* in the input, the reader stands right after the literal's last          *)
(* character, so that the character that follows is the next one routed.   *)
(***************************************************************************)
\* the index after the decimal literal that starts the input of the last
\* iteration, 0 when none starts there
LastNumEnd ==
  RefNumEnd(pi.rd.buf,
            pi.from + (IF At(pi.rd.buf, pi.from + 1) \in {"+", "-"} THEN 2 ELSE 1))

\* the last iteration was routed to the number lexer, read a decimal literal
\* without error, and a character follows the literal in the input
NumberIter ==
  /\ pi.ntok > 0 /\ ~err_has(pi)
  /\ pi.c \in {"+", "-", "0", "1", "2", "3", "4", "5", "6", "7", "8", "9"}
  /\ At(pi.rd.buf, pi.from + 1) = pi.c
  /\ LastNumEnd # 0 /\ LastNumEnd <= Len(pi.rd.buf)

C20_LiteralOnly == NumberIter => pi.rd.tail = LastNumEnd - 1
(***************************************************************************)
(* C21: when a [ or a { is read while the top frame does not accept a      *)
(* value (it is in a state other than ARRAY_NEW, ARRAY_ELEMENT and         *)
(* HASH_VALUE), the parse finishes with an error recorded, whatever input  *)
(* follows.  (So no parse that finishes without error has pushed a frame   *)
(* there: a finished parse stays finished, and its error slot as it is.)   *)
(***************************************************************************)
\* documents of brackets, separators, the key "a" and true, one token to an
\* iteration
MaxNestTokens == 6

NestChunks ==
  Tokens({<<"[">>, <<"]">>, <<"{">>, <<"}">>, <<",">>, <<":">>,
          <<QUOTE, "a", QUOTE>>, <<"t", "r", "u", "e">>})

NextNest == Parse(NestChunks, MaxNestTokens) \/ Finish

\* the parser runs on: an iteration is taken while the dispatcher loop runs
\* (the input ends, at the latest at the bounds), and the end check follows
SpecNest == Init /\ [][NextNest]_vars /\ WF_vars(NextNest)

ValueStates == {"ARRAY_NEW", "ARRAY_ELEMENT", "HASH_VALUE"}

\* the last iteration read an open and pushed its frame on a frame that does
\* not accept a value
BadOpen ==
  /\ pi.ntok > 0 /\ pi.c \in {"[", "{"}
  /\ Len(pi.stack) >= 2
  /\ pi.stack[Len(pi.stack) - 1].next \notin ValueStates

C21_BadOpenFails == BadOpen ~> (Finished /\ err_has(pi))

\* [true[ : the inner array was opened where the outer one expects a comma
C21_Witness ==
  /\ BadOpen /\ pc = "parse" /\ ~err_has(pi)
  /\ pi.rd.buf = <<"[", "t", "r", "u", "e", "[">>
  /\ pi.stack[1].next = "ARRAY_COMMA" /\ pi.stack[2].next = "ARRAY_NEW"
(***************************************************************************)
(* C22: in streaming mode (a block is given: pi->proc is Qnil) the block   *)
(* is called once in each iteration of the dispatcher that completes a     *)
(* top-level value (a top-level scalar, or the close of an outermost       *)
(* container) and in no other iteration, such as that of a top-level       *)
(* comment.                                                                *)
(***************************************************************************)
\* top-level values, containers and comments, one token to an iteration
MaxStreamTokens == 4

StreamChunks ==
  Tokens({<<"[">>, <<"]">>, <<"{">>, <<"}">>, <<",">>, <<":">>,
          <<QUOTE, "a", QUOTE>>, <<"t", "r", "u", "e">>, <<"1", SP>>,
          <<"/", "*", "*", "/">>, <<"/", "/", "a", NL>>})

\* oj_pi_parsex called with a block
InitStream ==
  /\ pi = InitPi("AutoDec", "Qnil")
  /\ pc = "parse"

NextStream == Parse(StreamChunks, MaxStreamTokens) \/ Finish

SpecStream == InitStream /\ [][NextStream]_vars

C22_YieldPerValue ==
  [][pc = "parse" => pi'.yields - pi.yields = Roots(pi') - Roots(pi)]_vars
====
